---- MODULE Spec2Model ----
(***************************************************************************)
(* Model of testutils/bench_delivery.go: the benchmark driver              *)
(* BenchDelivery with its five sub-benchmarks, the partial-status          *)
(* collector multipleErrs and the message fabricator RandomMsg.            *)
(*                                                                         *)
(* The delivery backend (module.DeliveryTarget / module.Delivery) is an    *)
(* interface: every call the driver makes on it is recorded in `log` and   *)
(* its result is a nondeterministic choice.                                *)
(*                                                                         *)
(* Strings are sequences of one-character strings.                         *)
(***************************************************************************)
EXTENDS Integers, Sequences, FiniteSets, TLC

VARIABLES
    idempotentBody,      \* parameter of BenchDelivery
    recipientTemplates,  \* parameter of BenchDelivery
    partial,             \* does the backend's Delivery implement PartialDelivery
    phase,               \* the sub-benchmark being run (b.Run name), or "finished"
    pc,                  \* position inside the sub-benchmark
    N,                   \* b.N of the running sub-benchmark
    i,                   \* the b.N loop counter
    j,                   \* the index of the range loops
    deliveries,          \* Start phase: the slice of opened deliveries
    delivery,            \* the delivery held by the sub-benchmark (0: none)
    sc,                  \* BodyNonAtomic phase: the multipleErrs map
    writtenBy,           \* history: the BodyNonAtomic call that wrote each entry of sc
    reported,            \* history: recipients reported since sc was made
    plan,                \* the outcomes the backend reports in the running call
    pending,             \* recipients the running call has still to report
    log,                 \* history: backend calls of the running sub-benchmark
    result,              \* how the running sub-benchmark ended
    ran,                 \* history: sub-benchmarks that issued a backend call
    skipped,             \* history: sub-benchmarks that ended in b.Skip
    headerPreamble,      \* the package-level preamble table
    msgPc,               \* position inside RandomMsg
    name,                \* b.Name() of the running RandomMsg call
    keysLeft,            \* preamble keys the range loop has not visited yet
    extra,               \* loop counter of the synthetic-field loop
    hdr,                 \* the textproto.Header under construction
    meta,                \* the MsgMetadata returned
    body,                \* the length of the buffer returned
    prevHdr              \* history: the header returned by the previous call

vars == <<idempotentBody, recipientTemplates, partial, phase, pc, N, i, j,
          deliveries, delivery, sc, writtenBy, reported, plan, pending, log, result,
          ran, skipped, headerPreamble, msgPc, name, keysLeft, extra, hdr,
          meta, body, prevHdr>>

driverVars == <<idempotentBody, recipientTemplates, partial, phase, pc, N, i, j,
                deliveries, delivery, sc, writtenBy, reported, plan, pending, log, result,
                ran, skipped>>

msgVars == <<headerPreamble, msgPc, name, keysLeft, extra, hdr, meta, body,
             prevHdr>>

----------------------------------------------------------------------------
(* Bounds of the model *)

MaxN == 3            \* largest b.N of the Start, Body, BodyNonAtomic and Full phases
MaxAddRcptN == 11    \* largest b.N of the AddRcpt phase (reaches two-digit indices)
MaxTemplates == 2    \* longest recipientTemplates list

(* Program constants *)

MessageBodySize == 102400
ExtraMessageHeaderFields == 20
ExtraMessageHeaderFieldSize == 100

----------------------------------------------------------------------------
(* strconv.Itoa and strings.Replace(s, "X", new, -1) *)

Digits == <<"0", "1", "2", "3", "4", "5", "6", "7", "8", "9">>

RECURSIVE Itoa(_)
Itoa(n) ==
    IF n < 10 THEN <<Digits[n + 1]>>
    ELSE Itoa(n \div 10) \o <<Digits[(n % 10) + 1]>>

RECURSIVE Replace(_, _, _)
Replace(s, old, new) ==
    IF s = <<>> THEN <<>>
    ELSE (IF Head(s) = old THEN new ELSE <<Head(s)>>)
         \o Replace(Tail(s), old, new)

(* Mutant of AddRcptPhaseRcpt: the template's index substituted, not i. *)
AddRcptPhaseRcptByTemplateIndex(n) ==
    Replace(recipientTemplates[(n % Len(recipientTemplates)) + 1], "X",
            Itoa(n % Len(recipientTemplates)))

(* The recipient the AddRcpt phase builds in iteration n (0-based). *)
AddRcptPhaseRcpt(n) ==
    Replace(recipientTemplates[(n % Len(recipientTemplates)) + 1], "X", Itoa(n))

(* The recipient the range loops build for the template at index n (0-based). *)
RangeRcpt(n) ==
    Replace(recipientTemplates[n + 1], "X", Itoa(n))

----------------------------------------------------------------------------
(* The sub-benchmarks, in the order BenchDelivery runs them. *)

Phases == <<"Start", "AddRcpt", "Body", "BodyNonAtomic", "Full transaction">>

PhaseIndex(p) == CHOOSE k \in 1..Len(Phases) : Phases[k] = p

NextPhaseOf(p) ==
    IF PhaseIndex(p) = Len(Phases) THEN "finished" ELSE Phases[PhaseIndex(p) + 1]

(* b.N of one run of a sub-benchmark. *)
IterationCounts(p) == IF p = "AddRcpt" THEN 1..MaxAddRcptN ELSE 1..MaxN

(* Recipient templates the caller passes. *)
TemplatePool == { <<"b", "X">>, <<"X", "1">>, <<"0", "X">> }

TemplateLists ==
    UNION { [1..n -> TemplatePool] : n \in 0..MaxTemplates }

----------------------------------------------------------------------------
(* Backend calls *)

Call(op, txn, arg, ok) == [op |-> op, txn |-> txn, arg |-> arg, ok |-> ok]

(* Deliveries are numbered in the order Start returned them. *)
Started == { log[k].txn : k \in { n \in 1..Len(log) : log[n].op = "Start" /\ log[n].ok } }

NewDelivery == Cardinality(Started) + 1

(* target.Start(&meta, sender) *)
StartCall(ok) == Call("Start", IF ok THEN NewDelivery ELSE 0, <<>>, ok)

(* Recipients the backend accepted on delivery d. *)
Rcpts(d) ==
    { log[k].arg : k \in { n \in 1..Len(log) :
                             log[n].op = "AddRcpt" /\ log[n].txn = d /\ log[n].ok } }

----------------------------------------------------------------------------
(* testing.B: b.Fatal and b.Skip end the sub-benchmark's goroutine through  *)
(* runtime.Goexit, which runs the deferred calls; a failed or skipped       *)
(* sub-benchmark does not stop its siblings.                                *)

(* Mutant of Leave: the deferred Abort is not run. *)
LeaveSkippingDeferred(how, deferredAbort) ==
    /\ result' = how
    /\ pc' = "exit"
    /\ skipped' = IF how = "skipped" THEN skipped \cup {phase} ELSE skipped

(* Mutant of Leave: an Abort is deferred in every sub-benchmark. *)
LeaveAlwaysDeferred(how, deferredAbort) ==
    /\ result' = how
    /\ pc' = "deferred"
    /\ skipped' = IF how = "skipped" THEN skipped \cup {phase} ELSE skipped

(* Leave the function; deferredAbort says whether defer delivery.Abort()    *)
(* has been registered.                                                     *)
Leave(how, deferredAbort) ==
    /\ result' = how
    /\ pc' = IF deferredAbort THEN "deferred" ELSE "exit"
    /\ skipped' = IF how = "skipped" THEN skipped \cup {phase} ELSE skipped

(* Mutant of Failed: the error returned is ignored. *)
FailedNever(ok) == FALSE

(* if err != nil { b.Fatal(err) } *)
Failed(ok) == ~ok

(* Mutant of LoopRuns: the loop bound off by one. *)
LoopRunsOnceMore(n, bound) == n <= bound

(* for i := 0; i < b.N; i++: does the loop body run at counter n? *)
LoopRuns(n, bound) == n < bound

(* Mutant of SkipNonIdempotent: the idempotency check dropped. *)
SkipNonIdempotentNever == FALSE

(* if !idempotentBody { b.Skip(...) } *)
SkipNonIdempotent == ~idempotentBody

(* Mutant of SkipNoPartial: the result of the type assertion ignored. *)
SkipNoPartialNever == FALSE

(* partialDelivery, ok := delivery.(module.PartialDelivery); if !ok { b.Skip } *)
SkipNoPartial == ~partial

----------------------------------------------------------------------------
(* var headerPreamble = map[string]string{...}: the table as the program  *)
(* text sets it, a set of <<key, value>> pairs. The values, which the      *)
(* program only stores, are written as TLA+ strings.                       *)

HeaderPreambleEntries == {
    << <<"F", "r", "o", "m">>,
       "\"whatever whatever\" <whatever@example.org>" >>,
    << <<"M", "e", "s", "s", "a", "g", "e", "-", "I", "D">>,
       "<AAAAAAAAAAAAAAAAAA@example.org>" >>,
    << <<"T", "o">>,
       "\"whatever whatever\" <whatever@example.org>, \"fool\" <fool@example.org>" >>,
    << <<"D", "a", "t", "e">>,
       "Tue, 08 Oct 2019 06:25:41 +0000" >>,
    << <<"S", "u", "b", "j", "e", "c", "t">>,
       "Heya Heya Heya Heya" >>,
    << <<"C", "o", "n", "t", "e", "n", "t", "-", "T", "y", "p", "e">>,
       "text/plain; charset=us-ascii" >>,
    << <<"M", "I", "M", "E", "-", "V", "e", "r", "s", "i", "o", "n">>,
       "1.0" >>,
    << <<"C", "o", "n", "t", "e", "n", "t", "-", "T", "r", "a", "n", "s",
         "f", "e", "r", "-", "E", "n", "c", "o", "d", "i", "n", "g">>,
       "8bit" >>,
    << <<"R", "e", "c", "e", "i", "v", "e", "d">>,
       "from whatever ([127.0.0.1]) by whatever ([127.0.0.1]) with whatever id whatever for whatever@example.org" >>
    }

HeaderPreambleTable ==
    [k \in { e[1] : e \in HeaderPreambleEntries } |->
        (CHOOSE e \in HeaderPreambleEntries : e[1] = k)[2]]


----------------------------------------------------------------------------
Init ==
    /\ idempotentBody \in BOOLEAN
    /\ recipientTemplates \in TemplateLists
    /\ partial \in BOOLEAN
    /\ phase = "Start"
    /\ pc = "enter"
    /\ N = 0
    /\ i = 0
    /\ j = 0
    /\ deliveries = <<>>
    /\ delivery = 0
    /\ sc = <<>>
    /\ writtenBy = <<>>
    /\ reported = {}
    /\ plan = <<>>
    /\ pending = {}
    /\ log = <<>>
    /\ result = "running"
    /\ ran = {}
    /\ skipped = {}
    /\ headerPreamble = HeaderPreambleTable
    /\ msgPc = "idle"
    /\ name = ""
    /\ keysLeft = {}
    /\ extra = 0
    /\ hdr = <<>>
    /\ meta = <<>>
    /\ body = 0
    /\ prevHdr = <<>>

(* b.Run(name, f): the framework calls f with some b.N >= 1. *)
Enter ==
    /\ phase # "finished"
    /\ pc = "enter"
    /\ \E n \in IterationCounts(phase) : N' = n
    /\ pc' = "begin"
    /\ UNCHANGED <<idempotentBody, recipientTemplates, partial, phase, i, j,
                   deliveries, delivery, sc, writtenBy, reported, plan, pending, log,
                   result, ran, skipped>>
    /\ UNCHANGED msgVars

(* The sub-benchmark function has returned; b.Run returns and BenchDelivery *)
(* goes on to the next b.Run.                                                *)
NextPhase ==
    /\ pc = "exit"
    /\ phase' = NextPhaseOf(phase)
    /\ pc' = IF NextPhaseOf(phase) = "finished" THEN "done" ELSE "enter"
    /\ N' = 0
    /\ i' = 0
    /\ j' = 0
    /\ deliveries' = <<>>
    /\ delivery' = 0
    /\ sc' = <<>>
    /\ writtenBy' = <<>>
    /\ reported' = {}
    /\ plan' = <<>>
    /\ pending' = {}
    /\ log' = <<>>
    /\ result' = "running"
    /\ UNCHANGED <<idempotentBody, recipientTemplates, partial, ran, skipped>>
    /\ UNCHANGED msgVars

(* defer delivery.Abort(), run when the function returns, on Goexit and     *)
(* while a panic unwinds; an unrecovered panic then ends the process.       *)
DeferredAbort ==
    /\ pc = "deferred"
    /\ log' = Append(log, Call("Abort", delivery, <<>>, TRUE))
    /\ pc' = IF result = "panicked" THEN "crashed" ELSE "exit"
    /\ UNCHANGED <<idempotentBody, recipientTemplates, partial, phase, N, i, j,
                   deliveries, delivery, sc, writtenBy, reported, plan, pending, result,
                   ran, skipped>>
    /\ UNCHANGED msgVars

----------------------------------------------------------------------------
(* b.Run("Start", ...) *)

StartPhaseStart ==
    /\ phase = "Start"
    /\ pc = "begin"
    /\ LoopRuns(i, N)
    /\ \E ok \in BOOLEAN :
        /\ log' = Append(log, StartCall(ok))
        /\ IF Failed(ok)
           THEN /\ Leave("failed", FALSE)
                /\ UNCHANGED <<deliveries, i>>
           ELSE /\ deliveries' = Append(deliveries, NewDelivery)
                /\ i' = i + 1
                /\ UNCHANGED <<pc, result, skipped>>
    /\ ran' = ran \cup {phase}
    /\ UNCHANGED <<idempotentBody, recipientTemplates, partial, phase, N, j,
                   delivery, sc, writtenBy, reported, plan, pending>>
    /\ UNCHANGED msgVars

(* Mutant of StartPhaseAbort: the deliveries aborted last to first. *)
StartPhaseAbortReversed ==
    /\ phase = "Start"
    /\ pc = "begin"
    /\ ~LoopRuns(i, N)
    /\ j < Len(deliveries)
    /\ log' = Append(log, Call("Abort", deliveries[Len(deliveries) - j], <<>>, TRUE))
    /\ j' = j + 1
    /\ UNCHANGED <<idempotentBody, recipientTemplates, partial, phase, pc, N, i,
                   deliveries, delivery, sc, writtenBy, reported, plan, pending, result,
                   ran, skipped>>
    /\ UNCHANGED msgVars

(* for _, delivery := range deliveries { delivery.Abort() } *)
StartPhaseAbort ==
    /\ phase = "Start"
    /\ pc = "begin"
    /\ ~LoopRuns(i, N)
    /\ j < Len(deliveries)
    /\ log' = Append(log, Call("Abort", deliveries[j + 1], <<>>, TRUE))
    /\ j' = j + 1
    /\ UNCHANGED <<idempotentBody, recipientTemplates, partial, phase, pc, N, i,
                   deliveries, delivery, sc, writtenBy, reported, plan, pending, result,
                   ran, skipped>>
    /\ UNCHANGED msgVars

StartPhaseReturn ==
    /\ phase = "Start"
    /\ pc = "begin"
    /\ ~LoopRuns(i, N)
    /\ j = Len(deliveries)
    /\ Leave("ok", FALSE)
    /\ UNCHANGED <<idempotentBody, recipientTemplates, partial, phase, N, i, j,
                   deliveries, delivery, sc, writtenBy, reported, plan, pending, log, ran>>
    /\ UNCHANGED msgVars

----------------------------------------------------------------------------
(* delivery, err := target.Start(&meta, sender); if err != nil { b.Fatal }; *)
(* defer delivery.Abort(): the opening of the AddRcpt, Body and             *)
(* BodyNonAtomic sub-benchmarks.                                             *)
OpenDelivery(then) ==
    /\ \E ok \in BOOLEAN :
        /\ log' = Append(log, StartCall(ok))
        /\ IF Failed(ok)
           THEN /\ Leave("failed", FALSE)
                /\ UNCHANGED delivery
           ELSE /\ delivery' = NewDelivery
                /\ pc' = then
                /\ UNCHANGED <<result, skipped>>
    /\ ran' = ran \cup {phase}

(* b.Run("AddRcpt", ...) *)

AddRcptPhaseStart ==
    /\ phase = "AddRcpt"
    /\ pc = "begin"
    /\ OpenDelivery("loop")
    /\ UNCHANGED <<idempotentBody, recipientTemplates, partial, phase, N, i, j,
                   deliveries, sc, writtenBy, reported, plan, pending>>
    /\ UNCHANGED msgVars

(* i%len(recipientTemplates) with an empty list: integer divide by zero *)
AddRcptPhasePanic ==
    /\ phase = "AddRcpt"
    /\ pc = "loop"
    /\ LoopRuns(i, N)
    /\ Len(recipientTemplates) = 0
    /\ Leave("panicked", TRUE)
    /\ UNCHANGED <<idempotentBody, recipientTemplates, partial, phase, N, i, j,
                   deliveries, delivery, sc, writtenBy, reported, plan, pending, log, ran>>
    /\ UNCHANGED msgVars

AddRcptPhaseAddRcpt ==
    /\ phase = "AddRcpt"
    /\ pc = "loop"
    /\ LoopRuns(i, N)
    /\ Len(recipientTemplates) # 0
    /\ \E ok \in BOOLEAN :
        /\ log' = Append(log, Call("AddRcpt", delivery, AddRcptPhaseRcpt(i), ok))
        /\ IF Failed(ok)
           THEN /\ Leave("failed", TRUE)
                /\ UNCHANGED i
           ELSE /\ i' = i + 1
                /\ UNCHANGED <<pc, result, skipped>>
    /\ UNCHANGED <<idempotentBody, recipientTemplates, partial, phase, N, j,
                   deliveries, delivery, sc, writtenBy, reported, plan, pending, ran>>
    /\ UNCHANGED msgVars

AddRcptPhaseReturn ==
    /\ phase = "AddRcpt"
    /\ pc = "loop"
    /\ ~LoopRuns(i, N)
    /\ Leave("ok", TRUE)
    /\ UNCHANGED <<idempotentBody, recipientTemplates, partial, phase, N, i, j,
                   deliveries, delivery, sc, writtenBy, reported, plan, pending, log, ran>>
    /\ UNCHANGED msgVars

----------------------------------------------------------------------------
(* for i, rcptTemplate := range recipientTemplates { ... delivery.AddRcpt(rcpt) } *)
(* of the Body and BodyNonAtomic sub-benchmarks, which hold a deferred Abort.      *)
RangeAddRcpt(deferredAbort) ==
    /\ j < Len(recipientTemplates)
    /\ \E ok \in BOOLEAN :
        /\ log' = Append(log, Call("AddRcpt", delivery, RangeRcpt(j), ok))
        /\ IF Failed(ok)
           THEN /\ Leave("failed", deferredAbort)
                /\ UNCHANGED j
           ELSE /\ j' = j + 1
                /\ UNCHANGED <<pc, result, skipped>>

(* b.Run("Body", ...) *)

BodyPhaseSkip ==
    /\ phase = "Body"
    /\ pc = "begin"
    /\ SkipNonIdempotent
    /\ Leave("skipped", FALSE)
    /\ UNCHANGED <<idempotentBody, recipientTemplates, partial, phase, N, i, j,
                   deliveries, delivery, sc, writtenBy, reported, plan, pending, log, ran>>
    /\ UNCHANGED msgVars

BodyPhaseStart ==
    /\ phase = "Body"
    /\ pc = "begin"
    /\ ~SkipNonIdempotent
    /\ OpenDelivery("rcpts")
    /\ UNCHANGED <<idempotentBody, recipientTemplates, partial, phase, N, i, j,
                   deliveries, sc, writtenBy, reported, plan, pending>>
    /\ UNCHANGED msgVars

BodyPhaseAddRcpt ==
    /\ phase = "Body"
    /\ pc = "rcpts"
    /\ RangeAddRcpt(TRUE)
    /\ UNCHANGED <<idempotentBody, recipientTemplates, partial, phase, N, i,
                   deliveries, delivery, sc, writtenBy, reported, plan, pending, ran>>
    /\ UNCHANGED msgVars

(* for i := 0; i < b.N; i++ { delivery.Body(header, body) } *)
BodyPhaseBody ==
    /\ phase = "Body"
    /\ pc = "rcpts"
    /\ j = Len(recipientTemplates)
    /\ LoopRuns(i, N)
    /\ \E ok \in BOOLEAN :
        /\ log' = Append(log, Call("Body", delivery, <<>>, ok))
        /\ IF Failed(ok)
           THEN /\ Leave("failed", TRUE)
                /\ UNCHANGED i
           ELSE /\ i' = i + 1
                /\ UNCHANGED <<pc, result, skipped>>
    /\ UNCHANGED <<idempotentBody, recipientTemplates, partial, phase, N, j,
                   deliveries, delivery, sc, writtenBy, reported, plan, pending, ran>>
    /\ UNCHANGED msgVars

BodyPhaseReturn ==
    /\ phase = "Body"
    /\ pc = "rcpts"
    /\ j = Len(recipientTemplates)
    /\ ~LoopRuns(i, N)
    /\ Leave("ok", TRUE)
    /\ UNCHANGED <<idempotentBody, recipientTemplates, partial, phase, N, i, j,
                   deliveries, delivery, sc, writtenBy, reported, plan, pending, log, ran>>
    /\ UNCHANGED msgVars

----------------------------------------------------------------------------
(* type multipleErrs map[string]error *)

NoStatus == <<>>

(* Mutant of SetStatus: the map replaced by a one-entry map. *)
SetStatusClobber(m, rcptTo, err) == [r \in {rcptTo} |-> err]

(* func (m multipleErrs) SetStatus(rcptTo string, err error) { m[rcptTo] = err } *)
SetStatus(m, rcptTo, err) ==
    [r \in DOMAIN m \cup {rcptTo} |-> IF r = rcptTo THEN err ELSE m[r]]

(* Outcomes a backend reports for a recipient: nil or an error. *)
Outcomes == {"nil", "err"}

(* What one BodyNonAtomic call may report: an outcome for each recipient of *)
(* some subset of the delivery's recipients.                                *)
Reports(d) == UNION { [S -> Outcomes] : S \in SUBSET Rcpts(d) }

(* b.Run("BodyNonAtomic", ...) *)

NonAtomicPhaseSkip ==
    /\ phase = "BodyNonAtomic"
    /\ pc = "begin"
    /\ SkipNonIdempotent
    /\ Leave("skipped", FALSE)
    /\ UNCHANGED <<idempotentBody, recipientTemplates, partial, phase, N, i, j,
                   deliveries, delivery, sc, writtenBy, reported, plan, pending, log, ran>>
    /\ UNCHANGED msgVars

NonAtomicPhaseStart ==
    /\ phase = "BodyNonAtomic"
    /\ pc = "begin"
    /\ ~SkipNonIdempotent
    /\ OpenDelivery("probe")
    /\ UNCHANGED <<idempotentBody, recipientTemplates, partial, phase, N, i, j,
                   deliveries, sc, writtenBy, reported, plan, pending>>
    /\ UNCHANGED msgVars

(* partialDelivery, ok := delivery.(module.PartialDelivery) *)
NonAtomicPhaseProbe ==
    /\ phase = "BodyNonAtomic"
    /\ pc = "probe"
    /\ IF SkipNoPartial
       THEN Leave("skipped", TRUE)
       ELSE /\ pc' = "rcpts"
            /\ UNCHANGED <<result, skipped>>
    /\ UNCHANGED <<idempotentBody, recipientTemplates, partial, phase, N, i, j,
                   deliveries, delivery, sc, writtenBy, reported, plan, pending, log, ran>>
    /\ UNCHANGED msgVars

NonAtomicPhaseAddRcpt ==
    /\ phase = "BodyNonAtomic"
    /\ pc = "rcpts"
    /\ RangeAddRcpt(TRUE)
    /\ UNCHANGED <<idempotentBody, recipientTemplates, partial, phase, N, i,
                   deliveries, delivery, sc, writtenBy, reported, plan, pending, ran>>
    /\ UNCHANGED msgVars

(* sc := multipleErrs{} *)
NonAtomicPhaseMakeCollector ==
    /\ phase = "BodyNonAtomic"
    /\ pc = "rcpts"
    /\ j = Len(recipientTemplates)
    /\ sc' = NoStatus
    /\ writtenBy' = NoStatus
    /\ reported' = {}
    /\ pc' = "loop"
    /\ UNCHANGED <<idempotentBody, recipientTemplates, partial, phase, N, i, j,
                   deliveries, delivery, plan, pending, log, result, ran, skipped>>
    /\ UNCHANGED msgVars

(* Mutant of CollectorForCall: sc := multipleErrs{} moved into the loop. *)
FreshCollector(m) == <<>>

(* The collector a BodyNonAtomic call of the loop is handed. *)
CollectorForCall(m) == m

(* partialDelivery.BodyNonAtomic(sc, header, body): the call is entered ... *)
NonAtomicPhaseBody ==
    /\ phase = "BodyNonAtomic"
    /\ pc = "loop"
    /\ LoopRuns(i, N)
    /\ log' = Append(log, Call("BodyNonAtomic", delivery, <<>>, TRUE))
    /\ \E p \in Reports(delivery) :
        /\ plan' = p
        /\ pending' = DOMAIN p
    /\ sc' = CollectorForCall(sc)
    /\ writtenBy' = CollectorForCall(writtenBy)
    /\ pc' = "incall"
    /\ UNCHANGED reported
    /\ UNCHANGED <<idempotentBody, recipientTemplates, partial, phase, N, i, j,
                   deliveries, delivery, result, ran, skipped>>
    /\ UNCHANGED msgVars

(* ... the backend reports its outcomes through sc.SetStatus, in any order ... *)
NonAtomicPhaseSetStatus ==
    /\ phase = "BodyNonAtomic"
    /\ pc = "incall"
    /\ \E r \in pending :
        /\ sc' = SetStatus(sc, r, plan[r])
        /\ writtenBy' = SetStatus(writtenBy, r, i + 1)
        /\ reported' = reported \cup {r}
        /\ pending' = pending \ {r}
    /\ UNCHANGED <<idempotentBody, recipientTemplates, partial, phase, pc, N, i, j,
                   deliveries, delivery, plan, log, result, ran, skipped>>
    /\ UNCHANGED msgVars

(* Mutant of NonAtomicPhaseBodyReturn: the driver reads sc and fails the    *)
(* sub-benchmark when a recipient's outcome is an error.                    *)
NonAtomicPhaseBodyReturnChecked ==
    /\ phase = "BodyNonAtomic"
    /\ pc = "incall"
    /\ pending = {}
    /\ IF \E r \in DOMAIN sc : sc[r] = "err"
       THEN /\ Leave("failed", TRUE)
            /\ UNCHANGED i
       ELSE /\ i' = i + 1
            /\ pc' = "loop"
            /\ UNCHANGED <<result, skipped>>
    /\ UNCHANGED <<idempotentBody, recipientTemplates, partial, phase, N, j,
                   deliveries, delivery, sc, writtenBy, reported, plan, pending, log,
                   ran>>
    /\ UNCHANGED msgVars

(* Mutant of NonAtomicPhaseBodyReturn: the atomic Body called as well. *)
NonAtomicPhaseBodyReturnThenBody ==
    /\ phase = "BodyNonAtomic"
    /\ pc = "incall"
    /\ pending = {}
    /\ log' = Append(log, Call("Body", delivery, <<>>, TRUE))
    /\ i' = i + 1
    /\ pc' = "loop"
    /\ UNCHANGED <<idempotentBody, recipientTemplates, partial, phase, N, j,
                   deliveries, delivery, sc, writtenBy, reported, plan, pending,
                   result, ran, skipped>>
    /\ UNCHANGED msgVars

(* ... and returns; the driver does not look at sc. *)
NonAtomicPhaseBodyReturn ==
    /\ phase = "BodyNonAtomic"
    /\ pc = "incall"
    /\ pending = {}
    /\ i' = i + 1
    /\ pc' = "loop"
    /\ UNCHANGED <<idempotentBody, recipientTemplates, partial, phase, N, j,
                   deliveries, delivery, sc, writtenBy, reported, plan, pending, log,
                   result, ran, skipped>>
    /\ UNCHANGED msgVars

NonAtomicPhaseReturn ==
    /\ phase = "BodyNonAtomic"
    /\ pc = "loop"
    /\ ~LoopRuns(i, N)
    /\ Leave("ok", TRUE)
    /\ UNCHANGED <<idempotentBody, recipientTemplates, partial, phase, N, i, j,
                   deliveries, delivery, sc, writtenBy, reported, plan, pending, log, ran>>
    /\ UNCHANGED msgVars

----------------------------------------------------------------------------
(* b.Run("Full transaction", ...): no deferred Abort in this function. *)

(* Mutant of CommitAfterBody: the error of delivery.Body ignored. *)
CommitAfterAnyBody(ok) == TRUE

(* May the loop body go on to delivery.Commit() after Body returned ok? *)
CommitAfterBody(ok) == ~Failed(ok)

(* Mutant of AfterBody: the Commit call left out of the loop body. *)
AfterBodyNoCommit == "begin"

(* Where the loop body goes after a successful delivery.Body. *)
AfterBody == "commit"

FullPhaseStart ==
    /\ phase = "Full transaction"
    /\ pc = "begin"
    /\ LoopRuns(i, N)
    /\ OpenDelivery("rcpts")
    /\ j' = 0
    /\ UNCHANGED <<idempotentBody, recipientTemplates, partial, phase, N, i,
                   deliveries, sc, writtenBy, reported, plan, pending>>
    /\ UNCHANGED msgVars

FullPhaseAddRcpt ==
    /\ phase = "Full transaction"
    /\ pc = "rcpts"
    /\ RangeAddRcpt(FALSE)
    /\ UNCHANGED <<idempotentBody, recipientTemplates, partial, phase, N, i,
                   deliveries, delivery, sc, writtenBy, reported, plan, pending, ran>>
    /\ UNCHANGED msgVars

FullPhaseBody ==
    /\ phase = "Full transaction"
    /\ pc = "rcpts"
    /\ j = Len(recipientTemplates)
    /\ \E ok \in BOOLEAN :
        /\ log' = Append(log, Call("Body", delivery, <<>>, ok))
        /\ IF CommitAfterBody(ok)
           THEN /\ pc' = AfterBody
                /\ UNCHANGED <<result, skipped>>
           ELSE Leave("failed", FALSE)
    /\ UNCHANGED <<idempotentBody, recipientTemplates, partial, phase, N, i, j,
                   deliveries, delivery, sc, writtenBy, reported, plan, pending, ran>>
    /\ UNCHANGED msgVars

FullPhaseCommit ==
    /\ phase = "Full transaction"
    /\ pc = "commit"
    /\ \E ok \in BOOLEAN :
        /\ log' = Append(log, Call("Commit", delivery, <<>>, ok))
        /\ IF Failed(ok)
           THEN /\ Leave("failed", FALSE)
                /\ UNCHANGED i
           ELSE /\ i' = i + 1
                /\ pc' = "begin"
                /\ UNCHANGED <<result, skipped>>
    /\ UNCHANGED <<idempotentBody, recipientTemplates, partial, phase, N, j,
                   deliveries, delivery, sc, writtenBy, reported, plan, pending, ran>>
    /\ UNCHANGED msgVars

FullPhaseReturn ==
    /\ phase = "Full transaction"
    /\ pc = "begin"
    /\ ~LoopRuns(i, N)
    /\ Leave("ok", FALSE)
    /\ UNCHANGED <<idempotentBody, recipientTemplates, partial, phase, N, i, j,
                   deliveries, delivery, sc, writtenBy, reported, plan, pending, log, ran>>
    /\ UNCHANGED msgVars

----------------------------------------------------------------------------
Next ==
    \/ Enter
    \/ NextPhase
    \/ DeferredAbort
    \/ StartPhaseStart
    \/ StartPhaseAbort
    \/ StartPhaseReturn
    \/ AddRcptPhaseStart
    \/ AddRcptPhasePanic
    \/ AddRcptPhaseAddRcpt
    \/ AddRcptPhaseReturn
    \/ BodyPhaseSkip
    \/ BodyPhaseStart
    \/ BodyPhaseAddRcpt
    \/ BodyPhaseBody
    \/ BodyPhaseReturn
    \/ NonAtomicPhaseSkip
    \/ NonAtomicPhaseStart
    \/ NonAtomicPhaseProbe
    \/ NonAtomicPhaseAddRcpt
    \/ NonAtomicPhaseMakeCollector
    \/ NonAtomicPhaseBody
    \/ NonAtomicPhaseSetStatus
    \/ NonAtomicPhaseBodyReturn
    \/ NonAtomicPhaseReturn
    \/ FullPhaseStart
    \/ FullPhaseAddRcpt
    \/ FullPhaseBody
    \/ FullPhaseCommit
    \/ FullPhaseReturn

Spec == Init /\ [][Next]_vars

----------------------------------------------------------------------------
(* RandomMsg(b) *)

(* textproto.Header: a multi-map, the values of a field name in the order   *)
(* they were added.                                                         *)
EmptyHeader == <<>>

(* hdr.Add(k, v) *)
HeaderAdd(h, k, v) ==
    [f \in DOMAIN h \cup {k} |->
        IF f = k
        THEN (IF k \in DOMAIN h THEN Append(h[k], v) ELSE <<v>>)
        ELSE h[f]]

(* Mutant of SyntheticName: the loop counter left out of the name. *)
SyntheticNameNoIndex(n) == [c \in 1..12 |-> "A"] \o <<"-">>

(* "AAAAAAAAAAAA-" + strconv.Itoa(n) *)
SyntheticName(n) == [c \in 1..12 |-> "A"] \o <<"-">> \o Itoa(n)

(* strings.Repeat("A", ExtraMessageHeaderFieldSize) *)
SyntheticValue == [c \in 1..ExtraMessageHeaderFieldSize |-> "A"]

(* hex.EncodeToString(sha1.Sum([]byte(b.Name()))): a function of the name *)
EncodedID(n) == <<"hex", "sha1", n>>

(* b.Name() of the sub-benchmarks *)
Names == { Phases[k] : k \in 1..Len(Phases) }

InitMsg ==
    /\ idempotentBody = TRUE
    /\ recipientTemplates = <<>>
    /\ partial = TRUE
    /\ phase = "Start"
    /\ pc = "enter"
    /\ N = 0
    /\ i = 0
    /\ j = 0
    /\ deliveries = <<>>
    /\ delivery = 0
    /\ sc = <<>>
    /\ writtenBy = <<>>
    /\ reported = {}
    /\ plan = <<>>
    /\ pending = {}
    /\ log = <<>>
    /\ result = "running"
    /\ ran = {}
    /\ skipped = {}
    /\ headerPreamble = HeaderPreambleTable
    /\ msgPc = "idle"
    /\ name = ""
    /\ keysLeft = {}
    /\ extra = 0
    /\ hdr = EmptyHeader
    /\ meta = <<>>
    /\ body = 0
    /\ prevHdr = EmptyHeader

(* IDRaw := sha1.Sum(...); encodedID := ...; hdr := textproto.Header{} *)
RandomMsgEnter ==
    /\ msgPc \in {"idle", "returned"}
    /\ \E n \in Names : name' = n
    /\ prevHdr' = hdr
    /\ hdr' = EmptyHeader
    /\ keysLeft' = DOMAIN headerPreamble
    /\ extra' = 0
    /\ msgPc' = "build"
    /\ UNCHANGED <<headerPreamble, meta, body>>
    /\ UNCHANGED driverVars

(* for k, v := range headerPreamble { hdr.Add(k, v) }: a map is ranged over *)
(* in an unspecified order.                                                 *)
RandomMsgPreamble ==
    /\ msgPc = "build"
    /\ \E k \in keysLeft :
        /\ hdr' = HeaderAdd(hdr, k, headerPreamble[k])
        /\ keysLeft' = keysLeft \ {k}
    /\ UNCHANGED <<headerPreamble, msgPc, name, extra, meta, body, prevHdr>>
    /\ UNCHANGED driverVars

(* for i := 0; i < ExtraMessageHeaderFields; i++ { hdr.Add(...) } *)
RandomMsgExtra ==
    /\ msgPc = "build"
    /\ keysLeft = {}
    /\ extra < ExtraMessageHeaderFields
    /\ hdr' = HeaderAdd(hdr, SyntheticName(extra), SyntheticValue)
    /\ extra' = extra + 1
    /\ UNCHANGED <<headerPreamble, msgPc, name, keysLeft, meta, body, prevHdr>>
    /\ UNCHANGED driverVars

(* return module.MsgMetadata{...}, hdr, buffer.MemoryBuffer{...} *)
RandomMsgReturn ==
    /\ msgPc = "build"
    /\ keysLeft = {}
    /\ extra = ExtraMessageHeaderFields
    /\ meta' = [DontTraceSender |-> TRUE, ID |-> EncodedID(name)]
    /\ body' = MessageBodySize
    /\ msgPc' = "returned"
    /\ UNCHANGED <<headerPreamble, name, keysLeft, extra, hdr, prevHdr>>
    /\ UNCHANGED driverVars

NextMsg ==
    \/ RandomMsgEnter
    \/ RandomMsgPreamble
    \/ RandomMsgExtra
    \/ RandomMsgReturn

SpecMsg == InitMsg /\ [][NextMsg]_vars

----------------------------------------------------------------------------
(* Reading the call history *)

Calls(op) == { k \in 1..Len(log) : log[k].op = op }

CallsOn(op, d) == { k \in 1..Len(log) : log[k].op = op /\ log[k].txn = d }

Count(op, d) == Cardinality(CallsOn(op, d))

Terminals(d) == Count("Commit", d) + Count("Abort", d)

(* The function of the running sub-benchmark has been left. *)
PhaseEnded == pc \in {"exit", "crashed"}

BodyPhases == {"Body", "BodyNonAtomic"}

----------------------------------------------------------------------------
(* C1: when a sub-benchmark ends, every delivery that Start returned in it  *)
(* has received exactly one terminal call (Commit or Abort), whichever      *)
(* backend operation failed.                                                *)
C1_EveryStartedDeliveryTerminated ==
    PhaseEnded => \A d \in Started : Terminals(d) = 1

(* C2, as claimed: the atomic Body is invoked at most once on a delivery.   *)
C2_BodyAtMostOncePerDelivery ==
    \A d \in Started : Count("Body", d) <= 1

(* C2, amended: in the Full transaction phase Body is invoked at most once  *)
(* on each delivery; in the Body phase the one delivery of the phase        *)
(* receives one Body call per iteration, at most N, each repeat following a *)
(* successful Body; no other phase invokes Body.                            *)
C2_BodyOncePerFullDeliveryRepeatedInBodyPhase ==
    /\ phase = "Full transaction" => \A d \in Started : Count("Body", d) <= 1
    /\ phase = "Body" =>
         /\ Cardinality(Started) <= 1
         /\ \A d \in Started : Count("Body", d) <= N
         /\ \A k \in Calls("Body") :
               \A m \in Calls("Body") : m < k => log[m].ok
    /\ phase \notin {"Body", "Full transaction"} => Calls("Body") = {}

C2_Witness ==
    /\ phase = "Body"
    /\ N >= 2
    /\ Count("Body", 1) = N
    /\ result = "ok"

(* C3: Commit is called on a delivery only after a Body or BodyNonAtomic    *)
(* call on that delivery returned success, and never on a delivery whose    *)
(* body submission failed.                                                  *)
C3_CommitOnlyAfterSuccessfulBody ==
    \A k \in Calls("Commit") :
        /\ \E m \in 1..(k - 1) :
              /\ log[m].op \in {"Body", "BodyNonAtomic"}
              /\ log[m].txn = log[k].txn
              /\ log[m].ok
        /\ \A m \in 1..Len(log) :
              (log[m].op \in {"Body", "BodyNonAtomic"} /\ log[m].txn = log[k].txn)
                  => log[m].ok

C3_Witness ==
    /\ phase = "Full transaction"
    /\ Calls("Commit") # {}
    /\ \E k \in Calls("Body") : ~log[k].ok

(* C4, as claimed: when the delivery does not implement PartialDelivery the *)
(* BodyNonAtomic phase makes no backend call at all.                        *)
C4_NoBackendCallWhenProbeFails ==
    (phase = "BodyNonAtomic" /\ ~partial) => log = <<>>

(* C4, amended: when the delivery does not implement PartialDelivery the    *)
(* BodyNonAtomic phase makes no AddRcpt and no BodyNonAtomic call, but the  *)
(* probe needs a delivery: with idempotentBody set the phase calls Start    *)
(* once and, if Start succeeded, is skipped after exactly one Abort of that *)
(* delivery.                                                                *)
C4_ProbeFailureCallsOnlyStartAndAbort ==
    (phase = "BodyNonAtomic" /\ ~partial) =>
        /\ \A k \in 1..Len(log) : log[k].op \in {"Start", "Abort"}
        /\ Cardinality(Calls("Start")) <= 1
        /\ (PhaseEnded /\ idempotentBody /\ Started # {}) =>
              /\ result = "skipped"
              /\ log = << Call("Start", 1, <<>>, TRUE), Call("Abort", 1, <<>>, TRUE) >>
        /\ (PhaseEnded /\ idempotentBody /\ Started = {}) =>
              /\ result = "failed"
              /\ log = << Call("Start", 0, <<>>, FALSE) >>

C4_Witness ==
    /\ phase = "BodyNonAtomic"
    /\ ~partial
    /\ idempotentBody
    /\ pc = "exit"
    /\ result = "skipped"
    /\ Len(log) = 2

(* C5: with idempotentBody = false the Body and BodyNonAtomic phases are    *)
(* skipped without a single backend call, and they are the only phases      *)
(* skipped: the Start, AddRcpt and Full transaction phases each call Start. *)
C5_NonIdempotentSkipsOnlyBodyPhases ==
    ~idempotentBody =>
        /\ phase \in BodyPhases => /\ log = <<>>
                                   /\ PhaseEnded => result = "skipped"
        /\ ran \cap BodyPhases = {}
        /\ skipped \subseteq BodyPhases
        /\ (phase \notin BodyPhases /\ PhaseEnded) =>
              /\ phase \in ran
              /\ result # "skipped"
              /\ Calls("Start") # {}
        /\ phase = "finished" =>
              /\ ran = {"Start", "AddRcpt", "Full transaction"}
              /\ skipped = BodyPhases

C5_Witness ==
    /\ ~idempotentBody
    /\ phase = "finished"
    /\ skipped = BodyPhases
    /\ "Full transaction" \in ran

----------------------------------------------------------------------------
(* C6, as claimed: every BodyNonAtomic call is handed an empty collector,   *)
(* and when the call is over the collector holds exactly the outcomes that  *)
(* call reported, none of them written by an earlier call.                  *)
C6_CollectorEmptyAtEveryCall ==
    (phase = "BodyNonAtomic" /\ pc = "incall") =>
        /\ pending = DOMAIN plan => sc = NoStatus
        /\ pending = {} => /\ sc = plan
                           /\ \A r \in DOMAIN sc : writtenBy[r] = i + 1

(* C6, amended: the collector is scoped to the BodyNonAtomic phase. It is   *)
(* made once, empty, before the first call and the same map is handed to    *)
(* all N calls, so it keeps an entry for every recipient reported since it  *)
(* was made. When a call is over the collector holds that call's outcome    *)
(* for every recipient the call reported and an earlier call's entry for    *)
(* any other; if the call reported every recipient of the delivery, the     *)
(* collector holds exactly that call's outcomes.                            *)
C6_CollectorScopedToPhase ==
    phase = "BodyNonAtomic" =>
        /\ DOMAIN sc = reported
        /\ DOMAIN sc \subseteq Rcpts(delivery)
        /\ (pc = "incall" /\ i = 0 /\ pending = DOMAIN plan) => sc = NoStatus
        /\ (pc = "incall" /\ pending = {}) =>
              /\ \A r \in DOMAIN plan : r \in DOMAIN sc /\ sc[r] = plan[r]
                                        /\ writtenBy[r] = i + 1
              /\ \A r \in DOMAIN sc \ DOMAIN plan : writtenBy[r] <= i
              /\ DOMAIN plan = Rcpts(delivery) => sc = plan

C6_Witness ==
    /\ phase = "BodyNonAtomic"
    /\ pc = "incall"
    /\ i = 1
    /\ pending = {}
    /\ DOMAIN plan # {}
    /\ \E r \in DOMAIN sc : writtenBy[r] = 1

----------------------------------------------------------------------------
(* The position of the AddRcpt call log[k] among the AddRcpt calls on its   *)
(* delivery, counted from 0.                                                *)
RcptIndex(k) == Cardinality({ m \in CallsOn("AddRcpt", log[k].txn) : m < k })

(* The template the claim names for the AddRcpt call at position n. *)
ClaimedTemplate(n) ==
    IF phase = "AddRcpt"
    THEN recipientTemplates[(n % Len(recipientTemplates)) + 1]
    ELSE recipientTemplates[n + 1]

(* Every AddRcpt call passes the claimed template with "X" replaced by the  *)
(* decimal position.                                                        *)
AddressesAsClaimed ==
    \A k \in Calls("AddRcpt") :
        log[k].arg = Replace(ClaimedTemplate(RcptIndex(k)), "X", Itoa(RcptIndex(k)))

(* C7, as claimed: the addresses are built from the templates as stated and *)
(* no delivery is passed the same address twice, whatever the templates.    *)
C7_NoAddressTwicePerDelivery ==
    /\ AddressesAsClaimed
    /\ \A k \in Calls("AddRcpt") : \A m \in Calls("AddRcpt") :
          (k < m /\ log[k].txn = log[m].txn) => log[k].arg # log[m].arg

(* C7, amended: the addresses are built from the templates as stated, and   *)
(* two addresses built from the same template for one delivery differ;      *)
(* addresses built from different templates may coincide.                   *)
C7_SameTemplateAddressesDistinct ==
    /\ AddressesAsClaimed
    /\ \A k \in Calls("AddRcpt") : \A m \in Calls("AddRcpt") :
          ( /\ k < m
            /\ log[k].txn = log[m].txn
            /\ ClaimedTemplate(RcptIndex(k)) = ClaimedTemplate(RcptIndex(m)) )
          => log[k].arg # log[m].arg

C7_Witness ==
    /\ phase = "AddRcpt"
    /\ Len(recipientTemplates) = 2
    /\ recipientTemplates[1] # recipientTemplates[2]
    /\ Cardinality(Calls("AddRcpt")) = 11
    /\ \A k \in Calls("AddRcpt") : log[k].ok

----------------------------------------------------------------------------
(* The calls of n complete iterations of the Full transaction loop. *)
RECURSIVE ExpectedFull(_)
ExpectedFull(n) ==
    IF n = 0 THEN <<>>
    ELSE ExpectedFull(n - 1)
         \o << Call("Start", n, <<>>, TRUE) >>
         \o [t \in 1..Len(recipientTemplates) |->
                Call("AddRcpt", n,
                     Replace(recipientTemplates[t], "X", Itoa(t - 1)), TRUE)]
         \o << Call("Body", n, <<>>, TRUE), Call("Commit", n, <<>>, TRUE) >>

IsPrefix(a, b) == Len(a) <= Len(b) /\ a = SubSeq(b, 1, Len(a))

(* C8: in the Full transaction phase, as long as every backend call         *)
(* succeeds, the calls made are a prefix of N repetitions of Start, one     *)
(* AddRcpt per template in template order, Body, Commit, each repetition on *)
(* a fresh delivery; the phase ends with all N repetitions made, every      *)
(* delivery committed once and none aborted.                                *)
C8_FullTransactionCallSequence ==
    (phase = "Full transaction" /\ \A k \in 1..Len(log) : log[k].ok) =>
        /\ IsPrefix(log, ExpectedFull(N))
        /\ PhaseEnded =>
              /\ result = "ok"
              /\ log = ExpectedFull(N)
              /\ Started = 1..N
              /\ \A d \in Started : Count("Commit", d) = 1 /\ Count("Abort", d) = 0

C8_Witness ==
    /\ phase = "Full transaction"
    /\ pc = "exit"
    /\ result = "ok"
    /\ N >= 2
    /\ Len(recipientTemplates) = 2
    /\ Cardinality(Calls("Commit")) = N

----------------------------------------------------------------------------
(* C9: a SetStatus call sets the entry of its recipient to the outcome      *)
(* given and changes no other entry; so when a call on an empty collector   *)
(* has reported each of its recipients once, in whatever order, the         *)
(* collector holds one entry per recipient, each with the outcome reported  *)
(* for it.                                                                  *)
C9_SetStatusSetsOneEntry ==
    /\ [][ NonAtomicPhaseSetStatus =>
             \E r \in pending :
                /\ pending' = pending \ {r}
                /\ DOMAIN sc' = DOMAIN sc \cup {r}
                /\ sc'[r] = plan[r]
                /\ \A o \in DOMAIN sc \ {r} : sc'[o] = sc[o] ]_vars
    /\ [] ( (phase = "BodyNonAtomic" /\ pc = "incall" /\ i = 0) =>
              /\ DOMAIN sc = DOMAIN plan \ pending
              /\ Cardinality(DOMAIN sc) = Cardinality(DOMAIN plan \ pending)
              /\ \A r \in DOMAIN sc : sc[r] = plan[r] )

C9_Witness ==
    /\ phase = "BodyNonAtomic"
    /\ pc = "incall"
    /\ i = 0
    /\ pending = {}
    /\ Cardinality(DOMAIN sc) = 2
    /\ \E r \in DOMAIN sc : sc[r] = "err"
    /\ \E r \in DOMAIN sc : sc[r] = "nil"

----------------------------------------------------------------------------
(* The nine preamble field names. *)
PreambleNames == {
    <<"F", "r", "o", "m">>,
    <<"T", "o">>,
    <<"D", "a", "t", "e">>,
    <<"S", "u", "b", "j", "e", "c", "t">>,
    <<"C", "o", "n", "t", "e", "n", "t", "-", "T", "y", "p", "e">>,
    <<"M", "I", "M", "E", "-", "V", "e", "r", "s", "i", "o", "n">>,
    <<"C", "o", "n", "t", "e", "n", "t", "-", "T", "r", "a", "n", "s",
      "f", "e", "r", "-", "E", "n", "c", "o", "d", "i", "n", "g">>,
    <<"M", "e", "s", "s", "a", "g", "e", "-", "I", "D">>,
    <<"R", "e", "c", "e", "i", "v", "e", "d">>
    }

(* The fields of a header: a field name with its position among the values *)
(* of that name.                                                            *)
Fields(h) == UNION { { <<k, n>> : n \in 1..Len(h[k]) } : k \in DOMAIN h }

(* C10: the preamble table is never modified, and every envelope RandomMsg  *)
(* returns has DontTraceSender set and a header of 29 fields: each of the 9 *)
(* preamble names once and 20 more fields with pairwise distinct names; the *)
(* header is the same as the one the previous call returned.                *)
C10_FabricatedEnvelope ==
    /\ headerPreamble = HeaderPreambleTable
    /\ msgPc = "returned" =>
          /\ meta.DontTraceSender = TRUE
          /\ Cardinality(Fields(hdr)) = 29
          /\ Cardinality(PreambleNames) = 9
          /\ \A k \in PreambleNames : k \in DOMAIN hdr /\ Len(hdr[k]) = 1
          /\ Cardinality(DOMAIN hdr \ PreambleNames) = 20
          /\ \A k \in DOMAIN hdr \ PreambleNames : Len(hdr[k]) = 1
          /\ prevHdr # EmptyHeader => hdr = prevHdr

C10_Witness ==
    /\ msgPc = "returned"
    /\ prevHdr # EmptyHeader
    /\ name = "Full transaction"

----------------------------------------------------------------------------
(* C11: once a backend call of a sub-benchmark has returned an error, the   *)
(* only calls that follow in that sub-benchmark are Aborts of deliveries    *)
(* opened in it: no retry, no further Start, AddRcpt, Body, BodyNonAtomic   *)
(* or Commit.                                                               *)
C11_NothingButAbortAfterFailure ==
    \A k \in 1..Len(log) :
        ~log[k].ok =>
            \A m \in (k + 1)..Len(log) :
                /\ log[m].op = "Abort"
                /\ log[m].txn \in Started

C11_Witness ==
    /\ phase = "Body"
    /\ pc = "exit"
    /\ result = "failed"
    /\ Len(log) >= 3
    /\ ~log[Len(log) - 1].ok
    /\ log[Len(log) - 1].op = "AddRcpt"
    /\ log[Len(log)].op = "Abort"

----------------------------------------------------------------------------
(* The calls of a Start sub-benchmark in which every Start succeeds. *)
ExpectedStartPhase(n) ==
    [k \in 1..n |-> Call("Start", k, <<>>, TRUE)]
    \o [k \in 1..n |-> Call("Abort", k, <<>>, TRUE)]

(* Deliveries started and not yet committed or aborted. *)
Open == { d \in Started : Terminals(d) = 0 }

(* C12: in the Start phase, as long as every Start succeeds, the calls made *)
(* are a prefix of N Starts followed by N Aborts in the order of the        *)
(* Starts: no Abort before the N-th Start has returned, at which point N    *)
(* deliveries are open, and at the end every delivery has been aborted once *)
(* and none is open.                                                        *)
C12_StartPhaseOpensAllThenAbortsInOrder ==
    (phase = "Start" /\ \A k \in 1..Len(log) : log[k].ok) =>
        /\ IsPrefix(log, ExpectedStartPhase(N))
        /\ Calls("Abort") # {} => Cardinality(Calls("Start")) = N
        /\ Len(log) = N => Open = 1..N
        /\ PhaseEnded =>
              /\ result = "ok"
              /\ log = ExpectedStartPhase(N)
              /\ Open = {}
              /\ \A d \in 1..N : Count("Abort", d) = 1

C12_Witness ==
    /\ phase = "Start"
    /\ pc = "exit"
    /\ result = "ok"
    /\ N = 3
    /\ Len(log) = 6

----------------------------------------------------------------------------
SingleDeliveryPhases == {"AddRcpt", "Body", "BodyNonAtomic"}

(* C13: in the AddRcpt, Body and BodyNonAtomic phases at most one delivery  *)
(* is started; it is not aborted while the function runs, and however the   *)
(* function is left (return, b.Fatal, b.Skip) the delivery has then been    *)
(* aborted exactly once, never committed, and the Abort is the last call.   *)
C13_SingleDeliveryAbortedOnceOnExit ==
    (phase \in SingleDeliveryPhases /\ Started # {}) =>
        /\ Started = {1}
        /\ Count("Commit", 1) = 0
        /\ ~PhaseEnded => Count("Abort", 1) = 0
        /\ PhaseEnded =>
              /\ Count("Abort", 1) = 1
              /\ log[Len(log)] = Call("Abort", 1, <<>>, TRUE)

C13_Witness ==
    /\ phase = "Body"
    /\ pc = "exit"
    /\ result = "failed"
    /\ \E k \in Calls("Body") : ~log[k].ok
    /\ log[Len(log)].op = "Abort"

----------------------------------------------------------------------------
(* C14: the driver does not act on what the collector holds. Once the       *)
(* BodyNonAtomic loop has been reached the sub-benchmark cannot fail:       *)
(* whatever outcomes are reported, while it runs no result is set, and it   *)
(* ends "ok" after exactly N BodyNonAtomic calls followed by the Abort.     *)
C14_OutcomesNeverFailThePhase ==
    (phase = "BodyNonAtomic" /\ Calls("BodyNonAtomic") # {}) =>
        /\ Count("BodyNonAtomic", 1) <= N
        /\ pc \in {"loop", "incall"} =>
              /\ result = "running"
              /\ Count("BodyNonAtomic", 1) = IF pc = "incall" THEN i + 1 ELSE i
        /\ pc \in {"deferred", "exit"} =>
              /\ result = "ok"
              /\ Count("BodyNonAtomic", 1) = N
        /\ pc = "exit" =>
              /\ log[Len(log)].op = "Abort"
              /\ log[Len(log) - 1].op = "BodyNonAtomic"

C14_Witness ==
    /\ phase = "BodyNonAtomic"
    /\ pc = "exit"
    /\ result = "ok"
    /\ N = 3
    /\ Count("BodyNonAtomic", 1) = 3
    /\ \E r \in DOMAIN sc : sc[r] = "err"

----------------------------------------------------------------------------
BodyCalls == Calls("Body") \cup Calls("BodyNonAtomic")

(* C15: before every Body or BodyNonAtomic call, an AddRcpt call on the     *)
(* same delivery has succeeded.                                             *)
C15_BodyHasARecipient ==
    \A k \in BodyCalls :
        \E m \in 1..(k - 1) :
            /\ log[m].op = "AddRcpt"
            /\ log[m].txn = log[k].txn
            /\ log[m].ok

----------------------------------------------------------------------------
(* C16: no delivery receives both an atomic Body call and a BodyNonAtomic   *)
(* call: the Body and Full transaction phases only call Body, the           *)
(* BodyNonAtomic phase only calls BodyNonAtomic.                            *)
C16_BodyModesNeverMixed ==
    /\ \A d \in Started : Count("Body", d) = 0 \/ Count("BodyNonAtomic", d) = 0
    /\ phase = "BodyNonAtomic" => Calls("Body") = {}
    /\ phase # "BodyNonAtomic" => Calls("BodyNonAtomic") = {}

C16_Witness ==
    /\ phase = "BodyNonAtomic"
    /\ pc = "loop"
    /\ i >= 2
    /\ Count("BodyNonAtomic", 1) = i

----------------------------------------------------------------------------
(* C17: after the Commit or the Abort of a delivery no further call is made *)
(* on it: not a second Abort, not an Abort after Commit or a Commit after   *)
(* Abort, not an AddRcpt, Body, BodyNonAtomic or Commit.                    *)
C17_NoCallOnFinishedDelivery ==
    \A k \in Calls("Commit") \cup Calls("Abort") :
        \A m \in (k + 1)..Len(log) : log[m].txn # log[k].txn

C17_Witness ==
    /\ phase = "Full transaction"
    /\ pc = "exit"
    /\ result = "failed"
    /\ Cardinality(Calls("Commit")) = 2
    /\ log[Len(log)].op = "Commit"
    /\ ~log[Len(log)].ok

----------------------------------------------------------------------------
(* C18: a sub-benchmark ends by returning, by b.Skip or by b.Fatal after a  *)
(* backend error, never by a runtime fault of the driver.                   *)
C18_NoRuntimeFault ==
    /\ result \in {"running", "ok", "skipped", "failed"}
    /\ pc # "crashed"

====
